---- MODULE Spec2Model ----
(***************************************************************************)
(* Model of two components of the repository:                              *)
(*   - RulerClient (cmd/cortextool/pkg/client/client.go): one blocking     *)
(*     HTTP round trip per operation, with response classification.         *)
(*   - MultitenantAlertmanager.OnRingInstanceRegister                       *)
(*     (pkg/alertmanager/lifecycle.go): the ring join policy.               *)
(* The two components share no state; each has its own specification       *)
(* (Spec for the client, SpecRing for the join policy).                     *)
(***************************************************************************)
EXTENDS Integers, Sequences, FiniteSets, TLC

VARIABLES
    cfg,            \* the Config handed to New
    client,         \* the *RulerClient New returned (present = FALSE: nil)
    newErr,         \* the error New returned
    pc,             \* "start" | "idle" | "inflight" | "returned"
    call,           \* the operation being executed and its arguments
    req,            \* the *http.Request handed to r.client.Do
    ctxDone,        \* whether the ctx passed to the operation is cancelled
    cancelledInFlight, \* whether ctx was cancelled while the request was in flight
    outcome,        \* what r.client.Do produced for the current call
    resp,           \* the *http.Response the transport produced, and its body
    ret,            \* what the operation returned: [err, value]
    ringPc,         \* "register" | "registered"
    ringDesc,       \* ring.Desc passed to the hook
    instanceExists, \* hook argument
    instanceDesc,   \* hook argument
    regState,       \* ring.InstanceState the hook returned
    regTokens       \* ring.Tokens the hook returned

clientVars == <<cfg, client, newErr, pc, call, req, ctxDone, cancelledInFlight,
                outcome, resp, ret>>
ringVars == <<ringPc, ringDesc, instanceExists, instanceDesc, regState, regTokens>>
vars == <<cfg, client, newErr, pc, call, req, ctxDone, cancelledInFlight,
          outcome, resp, ret, ringPc, ringDesc, instanceExists, instanceDesc,
          regState, regTokens>>

(***************************************************************************)
(* Errors.  A Go error value is modelled by its identity (val) and the     *)
(* stack of messages errors.Wrap put around it; the value itself has       *)
(* wraps = <<>>.                                                           *)
(***************************************************************************)
NoErr == [val |-> "nil", wraps |-> <<>>]

NewError(s) == [val |-> s, wraps |-> <<>>]

ErrNoConfig == NewError("No config exists for this user")

ErrResourceNotFound == NewError("requested resource not found")

\* errors.Wrap(err, msg): a new error value whose cause is err
Wrap(e, msg) == [e EXCEPT !.wraps = Append(@, msg)]

StatusNotFound == 404

(***************************************************************************)
(* Inputs.                                                                 *)
(***************************************************************************)
Keys == {"", "s3cr3t"}

IDs == {"t1", "t2"}

\* ":bad" has no scheme: url.Parse rejects it
Addresses == {"http://r.example", ":bad"}

\* "%zz" is an invalid URL escape: http.NewRequest rejects a URL holding it
Namespaces == {"", "alerts", "%zz"}

GroupNames == {"g1"}

Ops == {"CreateRuleGroup", "DeleteRuleGroup", "GetRuleGroup", "ListRules"}

\* status codes the server may answer with
Statuses == {200, 201, 204, 299, 300, 404, 500, 503}

\* errors r.client.Do may return without a response
TransportErrs == {"connection refused", "no such host"}

CtxErr == "context canceled"

\* url.Parse on a string built from the given pieces
UrlParses(pieces) == \A i \in 1..Len(pieces) : pieces[i] \notin {":bad", "%zz"}

NoClient == [present |-> FALSE, key |-> "", id |-> "", endpoint |-> ""]

NoCall == [op |-> "none", namespace |-> "", groupName |-> "", marshalOK |-> TRUE]

NoReq == [sent |-> FALSE, method |-> "", url |-> <<>>, payload |-> "",
          Header |-> [k \in {} |-> <<>>], ctx |-> "none"]

NoOutcome == [err |-> "nil", StatusCode |-> 0, readOK |-> TRUE, yamlOK |-> TRUE]

NoResp == [present |-> FALSE, StatusCode |-> 0, readOK |-> TRUE, yamlOK |-> TRUE,
           reads |-> 0, closed |-> FALSE]

NoRet == [err |-> NoErr, value |-> "none"]

(***************************************************************************)
(* New                                                                     *)
(***************************************************************************)
New(c) ==
    IF ~UrlParses(<<c.Address>>)
    THEN [client |-> NoClient, err |-> NewError("parse error")]
    ELSE [client |-> [present |-> TRUE, key |-> c.Key, id |-> c.ID,
                      endpoint |-> c.Address],
          err |-> NoErr]

(***************************************************************************)
(* doRequest, up to the call of r.client.Do: the request it builds.        *)
(* http.NewRequest binds the request to context.Background(); the ctx of   *)
(* the operation is not an argument of doRequest.                          *)
(***************************************************************************)
BasicAuth(user, pass) == <<"Basic", user, pass>>

BuildRequestAuthAlways(r, path, method, payload) ==
    LET url == <<r.endpoint>> \o path
        h1 == [k \in {"Authorization"} |-> <<BasicAuth(r.id, r.key)>>]
        h2 == [k \in DOMAIN h1 \cup {"X-Scope-OrgID"} |->
                 IF k = "X-Scope-OrgID" THEN <<r.id>> ELSE h1[k]]
    IN  IF ~UrlParses(url)
        THEN [err |-> NewError("parse error"), req |-> NoReq]
        ELSE [err |-> NoErr,
              req |-> [sent |-> TRUE, method |-> method, url |-> url,
                       payload |-> payload, Header |-> h2, ctx |-> "Background"]]

BuildRequestHeaderInElse(r, path, method, payload) ==
    LET url == <<r.endpoint>> \o path
        h == IF r.key # ""
             THEN [k \in {"Authorization"} |-> <<BasicAuth(r.id, r.key)>>]
             ELSE [k \in {"X-Scope-OrgID"} |-> <<r.id>>]
    IN  IF ~UrlParses(url)
        THEN [err |-> NewError("parse error"), req |-> NoReq]
        ELSE [err |-> NoErr,
              req |-> [sent |-> TRUE, method |-> method, url |-> url,
                       payload |-> payload, Header |-> h, ctx |-> "Background"]]

BuildRequest(r, path, method, payload) ==
    LET url == <<r.endpoint>> \o path
        h0 == [k \in {} |-> <<>>]
        \* if r.key != "" { req.SetBasicAuth(r.id, r.key) }
        h1 == IF r.key # ""
              THEN [k \in DOMAIN h0 \cup {"Authorization"} |->
                      IF k = "Authorization" THEN <<BasicAuth(r.id, r.key)>> ELSE h0[k]]
              ELSE h0
        \* req.Header.Add("X-Scope-OrgID", r.id)
        h2 == [k \in DOMAIN h1 \cup {"X-Scope-OrgID"} |->
                 IF k = "X-Scope-OrgID"
                 THEN (IF k \in DOMAIN h1 THEN Append(h1[k], r.id) ELSE <<r.id>>)
                 ELSE h1[k]]
    IN  IF ~UrlParses(url)
        THEN [err |-> NewError("parse error"), req |-> NoReq]
        ELSE [err |-> NoErr,
              req |-> [sent |-> TRUE, method |-> method, url |-> url,
                       payload |-> payload, Header |-> h2, ctx |-> "Background"]]

\* the path, method and payload each operation passes to doRequest
RequestArgs(c) ==
    CASE c.op = "CreateRuleGroup" ->
           [path |-> <<"/api/prom/rules/", c.namespace>>, method |-> "POST",
            payload |-> "yaml"]
      [] c.op = "DeleteRuleGroup" ->
           [path |-> <<"/api/prom/rules/", c.namespace>>, method |-> "DELETE",
            payload |-> ""]
      [] c.op = "GetRuleGroup" ->
           [path |-> <<"/api/prom/rules/", c.namespace, "/", c.groupName>>,
            method |-> "GET", payload |-> ""]
      [] c.op = "ListRules" ->
           [path |-> IF c.namespace # ""
                     THEN <<"/api/prom/rules", "/", c.namespace>>
                     ELSE <<"/api/prom/rules">>,
            method |-> "GET", payload |-> ""]

(***************************************************************************)
(* r.client.Do: what the HTTP client may produce for a request.  It        *)
(* watches the context the request is bound to, and no other.              *)
(***************************************************************************)
RoundTrip(rq, done) ==
    IF rq.ctx = "ctx" /\ done
    THEN {[err |-> CtxErr, StatusCode |-> 0, readOK |-> TRUE, yamlOK |-> TRUE]}
    ELSE {[err |-> e, StatusCode |-> 0, readOK |-> TRUE, yamlOK |-> TRUE] :
             e \in TransportErrs}
         \cup {[err |-> "nil", StatusCode |-> s, readOK |-> ro, yamlOK |-> y] :
                 s \in Statuses, ro \in BOOLEAN, y \in BOOLEAN}

(***************************************************************************)
(* checkResponse.  The message built from the body is only logged; what    *)
(* the caller sees is the error, and the body having been read.            *)
(***************************************************************************)
ReadAll(r) ==
    [err |-> IF r.readOK THEN NoErr ELSE NewError("unexpected EOF"),
     resp |-> [r EXCEPT !.reads = @ + 1]]

checkResponse(r) ==
    IF 200 <= r.StatusCode /\ r.StatusCode <= 299
    THEN [err |-> NoErr, resp |-> r]
    ELSE LET data == ReadAll(r) IN
         IF r.StatusCode = StatusNotFound
         THEN [err |-> ErrResourceNotFound, resp |-> data.resp]
         ELSE [err |-> NewError("failed request to the ruler api"), resp |-> data.resp]

\* res.Body.Close(), as deferred by every operation
Close(r) == [r EXCEPT !.closed = TRUE]

\* doRequest when http.NewRequest fails: (nil, err)
doRequestNoSend(err) == [nilRes |-> TRUE, err |-> err, resp |-> NoResp]

\* doRequest from the return of r.client.Do on: (resp, nil) or (nil, err).
\* resp is the response the transport produced, whether or not it is returned.
doRequest(out) ==
    IF out.err # "nil"
    THEN [nilRes |-> TRUE, err |-> NewError(out.err), resp |-> NoResp]
    ELSE LET r0 == [present |-> TRUE, StatusCode |-> out.StatusCode,
                    readOK |-> out.readOK, yamlOK |-> out.yamlOK,
                    reads |-> 0, closed |-> FALSE]
             c == checkResponse(r0)
         IN  IF c.err # NoErr
             THEN [nilRes |-> TRUE, err |-> c.err, resp |-> c.resp]
             ELSE [nilRes |-> FALSE, err |-> NoErr, resp |-> c.resp]

(***************************************************************************)
(* The four operations, from the return of doRequest (d) on.  Each yields  *)
(* what the caller gets (err, value) and the final state of the response.  *)
(***************************************************************************)
CreateRuleGroup(d) ==
    IF d.err # NoErr
    THEN [err |-> d.err, value |-> "none", resp |-> d.resp]
    ELSE LET c == checkResponse(d.resp) IN
         IF c.err # NoErr
         THEN [err |-> c.err, value |-> "none", resp |-> Close(c.resp)]
         ELSE [err |-> NoErr, value |-> "none", resp |-> Close(c.resp)]

DeleteRuleGroup(d) ==
    IF d.err # NoErr
    THEN [err |-> d.err, value |-> "none", resp |-> d.resp]
    ELSE LET c == checkResponse(d.resp) IN
         IF c.err # NoErr
         THEN [err |-> c.err, value |-> "none", resp |-> Close(c.resp)]
         ELSE LET body == ReadAll(c.resp) IN
              IF body.err # NoErr
              THEN [err |-> body.err, value |-> "none", resp |-> Close(body.resp)]
              ELSE IF body.resp.StatusCode % 2 > 0
              THEN [err |-> NewError("error occured"), value |-> "none",
                    resp |-> Close(body.resp)]
              ELSE [err |-> NoErr, value |-> "none", resp |-> Close(body.resp)]

GetRuleGroup(d) ==
    IF d.err # NoErr
    THEN [err |-> Wrap(d.err, "failed to perform request"), value |-> "none",
          resp |-> d.resp]
    ELSE LET c == checkResponse(d.resp) IN
         IF c.err # NoErr
         THEN [err |-> c.err, value |-> "none", resp |-> Close(c.resp)]
         ELSE LET body == ReadAll(c.resp) IN
              IF body.err # NoErr
              THEN [err |-> body.err, value |-> "none", resp |-> Close(body.resp)]
              ELSE IF ~body.resp.yamlOK
              THEN [err |-> Wrap(NewError("yaml: unmarshal error"),
                                 "unable to unmarshal response"),
                    value |-> "none", resp |-> Close(body.resp)]
              ELSE [err |-> NoErr, value |-> "RuleGroup", resp |-> Close(body.resp)]

ListRules(d) ==
    IF d.err # NoErr
    THEN [err |-> d.err, value |-> "none", resp |-> d.resp]
    ELSE LET c == checkResponse(d.resp) IN
         IF c.err # NoErr
         THEN [err |-> c.err, value |-> "none", resp |-> Close(c.resp)]
         ELSE LET body == ReadAll(c.resp) IN
              IF body.err # NoErr
              THEN [err |-> body.err, value |-> "none", resp |-> Close(body.resp)]
              ELSE IF ~body.resp.yamlOK
              THEN [err |-> NewError("yaml: unmarshal error"), value |-> "none",
                    resp |-> Close(body.resp)]
              ELSE [err |-> NoErr, value |-> "ruleSet", resp |-> Close(body.resp)]

Finish(op, d) ==
    CASE op = "CreateRuleGroup" -> CreateRuleGroup(d)
      [] op = "DeleteRuleGroup" -> DeleteRuleGroup(d)
      [] op = "GetRuleGroup" -> GetRuleGroup(d)
      [] op = "ListRules" -> ListRules(d)

(***************************************************************************)
(* Ring join policy.                                                       *)
(***************************************************************************)
\* per-instance token quota of the alertmanager ring (scaled down)
RingNumTokens == 2

\* most tokens a prior descriptor of the instance may hold
MaxPriorTokens == 3

\* most tokens the other instance of the ring may hold
MaxOtherTokens == 1

\* the token space (2^32 in the code), always large enough to generate from
TokenSpace == MaxPriorTokens + MaxOtherTokens + RingNumTokens

Tokens == 0..(TokenSpace - 1)

InstanceStates == {"ACTIVE", "LEAVING", "JOINING"}

Self == "am-1"

Other == "am-2"

RECURSIVE SortedSeq(_)
\* the elements of a set of tokens, ascending
SortedSeq(S) ==
    IF S = {} THEN <<>>
    ELSE LET m == CHOOSE x \in S : \A y \in S : x <= y
         IN  <<m>> \o SortedSeq(S \ {m})

Range(s) == {s[i] : i \in 1..Len(s)}

\* ring.Desc.TokensFor(id): the tokens of id, and all tokens of the ring (sorted)
TokensFor(rd, id) ==
    [my |-> IF id \in DOMAIN rd THEN rd[id].Tokens ELSE <<>>,
     all |-> SortedSeq(UNION {Range(rd[i].Tokens) : i \in DOMAIN rd})]

\* ring.GenerateTokens(n, taken): the lists it may return, n distinct tokens
\* none of which is taken (none when n <= 0)
GenerateTokens(n, taken) ==
    IF n <= 0 THEN {<<>>}
    ELSE {s \in [1..n -> Tokens \ Range(taken)] :
             \A i, j \in 1..n : i # j => s[i] # s[j]}

OnRingInstanceRegisterOwnedAsTaken(rd, exists, instanceID, idesc) ==
    LET tokens == IF exists THEN idesc.Tokens ELSE <<>>
        takenTokens == TokensFor(rd, instanceID).my
    IN  {[state |-> "JOINING", tokens |-> tokens \o newTokens] :
            newTokens \in GenerateTokens(RingNumTokens - Len(tokens), takenTokens)}

OnRingInstanceRegisterFullQuota(rd, exists, instanceID, idesc) ==
    LET tokens == IF exists THEN idesc.Tokens ELSE <<>>
        takenTokens == TokensFor(rd, instanceID).all
    IN  {[state |-> "JOINING", tokens |-> tokens \o newTokens] :
            newTokens \in GenerateTokens(RingNumTokens, takenTokens)}

OnRingInstanceRegisterKeepState(rd, exists, instanceID, idesc) ==
    LET tokens == IF exists THEN idesc.Tokens ELSE <<>>
        takenTokens == TokensFor(rd, instanceID).all
    IN  {[state |-> IF exists THEN idesc.State ELSE "JOINING",
          tokens |-> tokens \o newTokens] :
            newTokens \in GenerateTokens(RingNumTokens - Len(tokens), takenTokens)}

\* the (state, tokens) pairs the hook may return
OnRingInstanceRegister(rd, exists, instanceID, idesc) ==
    LET tokens == IF exists THEN idesc.Tokens ELSE <<>>
        takenTokens == TokensFor(rd, instanceID).all
    IN  {[state |-> "JOINING", tokens |-> tokens \o newTokens] :
            newTokens \in GenerateTokens(RingNumTokens - Len(tokens), takenTokens)}

(***************************************************************************)
(* The client's state machine.  An operation suspends only at r.client.Do: *)
(* Call runs it up to there, Complete from the transport's answer to the   *)
(* operation's return.                                                     *)
(***************************************************************************)
\* an operation up to r.client.Do: either it has returned (sent = FALSE, fin
\* is its result) or the request is with the transport
Begin(r, c) ==
    IF c.op = "CreateRuleGroup" /\ ~c.marshalOK
    THEN [sent |-> FALSE, req |-> NoReq,
          fin |-> [err |-> NewError("yaml: marshal error"), value |-> "none",
                   resp |-> NoResp]]
    ELSE LET a == RequestArgs(c)
             b == BuildRequest(r, a.path, a.method, a.payload)
         IN  IF b.err # NoErr
             THEN [sent |-> FALSE, req |-> NoReq,
                   fin |-> Finish(c.op, doRequestNoSend(b.err))]
             ELSE [sent |-> TRUE, req |-> b.req,
                   fin |-> [err |-> NoErr, value |-> "none", resp |-> NoResp]]

RingOff ==
    /\ ringPc = "off"
    /\ ringDesc = <<>>
    /\ instanceExists = FALSE
    /\ instanceDesc = [State |-> "ACTIVE", Tokens |-> <<>>]
    /\ regState = "none"
    /\ regTokens = <<>>

ClientOff ==
    /\ cfg = [Key |-> "", Address |-> "", ID |-> ""]
    /\ client = NoClient
    /\ newErr = NoErr
    /\ pc = "off"
    /\ call = NoCall
    /\ req = NoReq
    /\ ctxDone = FALSE
    /\ cancelledInFlight = FALSE
    /\ outcome = NoOutcome
    /\ resp = NoResp
    /\ ret = NoRet

Init ==
    /\ cfg \in [Key : Keys, Address : Addresses, ID : IDs]
    /\ client = NoClient
    /\ newErr = NoErr
    /\ pc = "start"
    /\ call = NoCall
    /\ req = NoReq
    /\ ctxDone = FALSE
    /\ cancelledInFlight = FALSE
    /\ outcome = NoOutcome
    /\ resp = NoResp
    /\ ret = NoRet
    /\ RingOff

NewClient ==
    /\ pc = "start"
    /\ LET n == New(cfg) IN
         /\ client' = n.client
         /\ newErr' = n.err
         /\ pc' = IF n.err = NoErr THEN "idle" ELSE "failed"
    /\ UNCHANGED <<cfg, call, req, ctxDone, cancelledInFlight, outcome, resp, ret>>
    /\ UNCHANGED ringVars

Call ==
    /\ pc = "idle"
    /\ \E op \in Ops, ns \in Namespaces :
       \E g \in (IF op = "ListRules" THEN {""} ELSE GroupNames),
          m \in (IF op = "CreateRuleGroup" THEN BOOLEAN ELSE {TRUE}) :
         LET c == [op |-> op, namespace |-> ns, groupName |-> g, marshalOK |-> m]
             b == Begin(client, c)
         IN  /\ call' = c
             /\ req' = b.req
             /\ pc' = IF b.sent THEN "inflight" ELSE "returned"
             /\ ret' = [err |-> b.fin.err, value |-> b.fin.value]
             /\ resp' = b.fin.resp
    /\ UNCHANGED <<cfg, client, newErr, ctxDone, cancelledInFlight, outcome>>
    /\ UNCHANGED ringVars

\* the caller cancels the ctx it passed (or its deadline expires)
CancelCtx ==
    /\ pc \in {"idle", "inflight"}
    /\ ~ctxDone
    /\ ctxDone' = TRUE
    /\ cancelledInFlight' = (pc = "inflight")
    /\ UNCHANGED <<cfg, client, newErr, pc, call, req, outcome, resp, ret>>
    /\ UNCHANGED ringVars

Complete ==
    /\ pc = "inflight"
    /\ \E out \in RoundTrip(req, ctxDone) :
         LET f == Finish(call.op, doRequest(out))
         IN  /\ outcome' = out
             /\ ret' = [err |-> f.err, value |-> f.value]
             /\ resp' = f.resp
    /\ pc' = "returned"
    /\ UNCHANGED <<cfg, client, newErr, call, req, ctxDone, cancelledInFlight>>
    /\ UNCHANGED ringVars

Next == NewClient \/ Call \/ CancelCtx \/ Complete

Spec == Init /\ [][Next]_vars

(***************************************************************************)
(* The join policy's state machine: the ring framework calls the hook once *)
(* with the ring descriptor it read.                                       *)
(***************************************************************************)
InitRing ==
    /\ ClientOff
    /\ ringPc = "register"
    /\ regState = "none"
    /\ regTokens = <<>>
    /\ instanceExists \in BOOLEAN
    /\ \E own \in SUBSET Tokens, st \in InstanceStates :
         /\ Cardinality(own) <= MaxPriorTokens
         /\ instanceDesc = [State |-> st, Tokens |-> SortedSeq(own)]
         /\ \E oth \in SUBSET (Tokens \ own) :
              /\ Cardinality(oth) <= MaxOtherTokens
              /\ ringDesc =
                   IF instanceExists
                   THEN (Self :> instanceDesc)
                        @@ (Other :> [State |-> "ACTIVE", Tokens |-> SortedSeq(oth)])
                   ELSE (Other :> [State |-> "ACTIVE", Tokens |-> SortedSeq(oth)])

Register ==
    /\ ringPc = "register"
    /\ \E r \in OnRingInstanceRegister(ringDesc, instanceExists, Self, instanceDesc) :
         /\ regState' = r.state
         /\ regTokens' = r.tokens
    /\ ringPc' = "registered"
    /\ UNCHANGED <<ringDesc, instanceExists, instanceDesc>>
    /\ UNCHANGED clientVars

NextRing == Register

SpecRing == InitRing /\ [][NextRing]_vars

(***************************************************************************)
(* Properties of the client (checked under Spec).                          *)
(***************************************************************************)
Returned == pc = "returned"

\* C1: whenever the server answers an operation's request with 404, the error
\* the operation returns is exactly the sentinel ErrResourceNotFound (the
\* value itself, not wrapped).
C1_NotFoundIsSentinel ==
    (Returned /\ resp.present /\ resp.StatusCode = StatusNotFound)
        => ret.err = ErrResourceNotFound

\* C2: once an operation has returned, if the transport produced a response,
\* its body has been closed.
C2_BodyClosedOnReturn ==
    (Returned /\ resp.present) => resp.closed

\* C3: if the ctx passed to an operation is cancelled while its request is in
\* flight, the operation returns the cancellation error.
C3_CancelAbortsRequest ==
    (Returned /\ cancelledInFlight) => ret.err.val = CtxErr

\* C4: every request handed to the transport carries X-Scope-OrgID with the
\* configured tenant id, whatever the key.
C4_TenantHeader ==
    req.sent =>
        /\ "X-Scope-OrgID" \in DOMAIN req.Header
        /\ req.Header["X-Scope-OrgID"] = <<cfg.ID>>

C4_Witness ==
    /\ pc = "inflight"
    /\ req.sent
    /\ cfg.Key # ""
    /\ cfg.ID = "t2"
    /\ call.op = "ListRules"

\* C5: a request handed to the transport carries basic-auth credentials
\* (id, key) iff the configured key is non-empty; with an empty key it has no
\* Authorization header.
C5_AuthIffKey ==
    req.sent =>
        /\ ("Authorization" \in DOMAIN req.Header) <=> (cfg.Key # "")
        /\ cfg.Key # "" =>
             req.Header["Authorization"] = <<BasicAuth(cfg.ID, cfg.Key)>>

C5_Witness ==
    /\ pc = "inflight"
    /\ req.sent
    /\ cfg.Key = ""
    /\ "Authorization" \notin DOMAIN req.Header
    /\ call.op = "CreateRuleGroup"

\* C6: when the transport fails without a response, the operation returns the
\* transport's error value itself, and no response body is touched.
C6_TransportErrorUnwrapped ==
    (Returned /\ outcome.err # "nil")
        => (ret.err = NewError(outcome.err) /\ resp = NoResp)

\* C7: for CreateRuleGroup and DeleteRuleGroup, every response with a status
\* in 200..299 and a readable body makes the operation return no error.
C7_Every2xxIsSuccess ==
    (/\ Returned
     /\ call.op \in {"CreateRuleGroup", "DeleteRuleGroup"}
     /\ resp.present
     /\ 200 <= resp.StatusCode /\ resp.StatusCode <= 299
     /\ resp.readOK)
        => ret.err = NoErr

(***************************************************************************)
(* Properties of the join policy (checked under SpecRing).                 *)
(***************************************************************************)
Registered == ringPc = "registered"

\* the tokens the hook inherits from the prior descriptor
Inherited == IF instanceExists THEN instanceDesc.Tokens ELSE <<>>

\* the tokens taken in the ring descriptor
Taken == UNION {Range(ringDesc[i].Tokens) : i \in DOMAIN ringDesc}

\* C8 (as stated): the token list the hook returns has length exactly
\* RingNumTokens, whatever the prior descriptor holds.
C8_LengthIsQuota ==
    Registered => Len(regTokens) = RingNumTokens

\* C8 (amended): the returned list has length RingNumTokens when at most
\* RingNumTokens tokens are inherited, and is the inherited list, of its own
\* length, when more are.
C8_LengthIsQuotaOrInherited ==
    Registered =>
        IF Len(Inherited) <= RingNumTokens
        THEN Len(regTokens) = RingNumTokens
        ELSE regTokens = Inherited

C8_Witness ==
    /\ Registered
    /\ instanceExists
    /\ Len(instanceDesc.Tokens) > RingNumTokens
    /\ Len(regTokens) = Len(instanceDesc.Tokens)

\* C9: the returned list is the inherited tokens, in order, followed by
\* tokens absent from the ring's taken set; nothing is inherited when
\* instanceExists is false.
C9_InheritedThenFresh ==
    Registered =>
        /\ Len(regTokens) >= Len(Inherited)
        /\ SubSeq(regTokens, 1, Len(Inherited)) = Inherited
        /\ \A i \in (Len(Inherited) + 1)..Len(regTokens) : regTokens[i] \notin Taken

C9_Witness ==
    /\ Registered
    /\ instanceExists
    /\ Len(instanceDesc.Tokens) = 1
    /\ ringDesc[Other].Tokens # <<>>
    /\ Len(regTokens) = RingNumTokens
    /\ regTokens[1] = instanceDesc.Tokens[1]

\* C10: the hook returns state JOINING whether or not the instance exists and
\* whatever state its prior descriptor records.
C10_AlwaysJoining ==
    Registered => regState = "JOINING"

C10_Witness ==
    /\ Registered
    /\ instanceExists
    /\ instanceDesc.State = "ACTIVE"
    /\ regState = "JOINING"

====
